---- MODULE Spec2Model ----
(***************************************************************************)
(* Model of the profile aggregator: the Bitbucket collector                *)
(* (app/services/bitbucket.py), the Github collector                       *)
(* (app/services/github.py) and the merge function (app/tools/combine.py). *)
(*                                                                         *)
(* A collector is a sequential program.  Its only interaction with the     *)
(* outside is make_api_call; the model takes one step per call, the        *)
(* transport choosing the outcome (a body, ValueError for a response that  *)
(* is not ok, ConnectionResetError for a RequestException), and runs the   *)
(* code up to the next call in the same step.                              *)
(*                                                                         *)
(* Python values: a dict is a function from keys to values (a key may be   *)
(* absent), a list is a sequence, a set is a set, a str is a string.       *)
(***************************************************************************)
EXTENDS Integers, Sequences, FiniteSets, TLC

\* ------------------------------------------------------------------ bounds
\* most pages the transport serves for one paginated listing
MaxPages == 2
\* most records the transport serves over the pages of one listing
MaxRecords == 2

\* --------------------------------------------------------- python helpers
\* Python's None, where a str is expected (no URL, language or name is "None")
None == "None"
EmptyStr == ""

\* dict.get(key): the value, or None when the key is absent
Get(d, key) == IF key \in DOMAIN d THEN d[key] ELSE None

\* truth value of a str-or-None: None and '' are false
Truthy(v) == v # None /\ v # EmptyStr

SeqsUpTo(S, n) == UNION {[1..k -> S] : k \in 0..n}

Range(seq) == {seq[i] : i \in DOMAIN seq}

\* list(a_set): the elements of the set, each once, in some order
ListsOf(S) == {q \in [1..Cardinality(S) -> S] : Range(q) = S}

RECURSIVE ConcatValues(_, _)
\* the record lists under `key` of a sequence of bodies, concatenated in order
\* (a body without the key holds no record)
ConcatValues(bodies, key) ==
  IF bodies = <<>> THEN <<>>
  ELSE (IF key \in DOMAIN Head(bodies) THEN Head(bodies)[key] ELSE <<>>)
       \o ConcatValues(Tail(bodies), key)

\* total number of records under `key` in a sequence of bodies
SumLen(bodies, key) == Len(ConcatValues(bodies, key))

\* ------------------------------------------------------------------ state
VARIABLES
  collector,             \* which collector the caller drives in this run, or "both"
  transport,             \* the server: free to answer anything, or fixed per URL
  \* Bitbucket: the attributes of the instance (bitbucket.py:36-42)
  bb_followers, bb_languages, bb_repos, bb_results, bb_watchers,
  bb_pc,                 \* position of the make_response() call
  bb_exc,                \* exception that left make_response(), or "none"
  \* Bitbucket: locals of get_all_results and of process_repos
  bb_link, bb_data, bb_paginated_results,
  bb_ctx,                \* caller of the running get_all_results
  bb_todo,               \* repositories the for loop has not reached yet
  \* Bitbucket: what was observed at the transport
  bb_reqs,               \* URLs requested by the current/last get_all_results
  bb_pages,              \* bodies received by the current/last get_all_results
  bb_halt,               \* how the last get_all_results ended
  bb_ret,                \* value the last get_all_results returned
  bb_fork,               \* last update_repo_count: repository, requests, outcome,
                         \* counters before
  bb_conn,               \* the accumulators when ConnectionResetError was raised
  bb_listed,             \* what the repository listing returned to process_repos
  bb_classified          \* calls of update_repo_count that have returned

bbVars == <<bb_followers, bb_languages, bb_repos, bb_results, bb_watchers, bb_pc,
            bb_exc, bb_link, bb_data, bb_paginated_results, bb_ctx, bb_todo,
            bb_reqs, bb_pages, bb_halt, bb_ret, bb_fork, bb_conn, bb_listed,
            bb_classified>>

VARIABLES
  \* Github: the attributes of the instance (github.py:38-45)
  gh_followers, gh_languages, gh_repos, gh_results, gh_topics, gh_watchers,
  gh_pc,                 \* position of the make_response() call
  gh_exc,                \* exception that left make_response(), or "none"
  \* locals of get_all_repos and of process_repos
  gh_link, gh_all_repos, gh_total_pages, gh_page,
  gh_todo,               \* repositories the for loop has not reached yet
  \* what was observed at the transport
  gh_reqs,               \* URLs requested by the current/last get_all_repos
  gh_pages,              \* responses received by the current/last get_all_repos
  gh_halt,               \* how the last get_all_repos ended
  gh_ret,                \* value the last get_all_repos returned
  gh_fol,                \* last get_followers_count: requests, response, count before
  gh_conn                \* the accumulators when ConnectionResetError was raised

VARIABLES
  \* combine(bitbucket, github): its arguments, its result, whether it has run
  cb_bitbucket, cb_github, cb_results, cb_pc

cbVars == <<cb_bitbucket, cb_github, cb_results, cb_pc>>

ghVars == <<gh_followers, gh_languages, gh_repos, gh_results, gh_topics, gh_watchers,
            gh_pc, gh_exc, gh_link, gh_all_repos, gh_total_pages, gh_page, gh_todo,
            gh_reqs, gh_pages, gh_halt, gh_ret, gh_fol, gh_conn>>

\* ---------------------------------------------------------------- transport
\* a server free to answer each request in any way
FreeTransport == [free |-> TRUE]

\* a deterministic server: `at` gives the outcome of a request at each URL it knows
FixedTransport(at) == [free |-> FALSE, at |-> at]

\* the outcomes of a request at `url`, out of the outcomes `any` a server may
\* give there; a deterministic server answers 404 at a URL it does not know
Answers(any, url) ==
  IF transport.free THEN any
  ELSE IF url \in DOMAIN transport.at
       THEN {out \in any : out = transport.at[url]}
       ELSE {out \in any : out.kind = "ValueError"}

\* ------------------------------------------------------ Bitbucket transport
\* URLs built by the collector (bitbucket.py:114, 82, 153-154)
BBReposUrl == "repositories/org?pagelen=100"
BBFollowersUrl == "teams/org/followers?pagelen=100"

\* '-'.join(repo.split()): whitespace-separated words joined by hyphens
Hyphenate(repo) == IF repo = "b c" THEN "b-c" ELSE repo

BBWatchersUrl(repo) == "repositories/org/" \o Hyphenate(repo) \o "/watchers?pagelen=100"

\* repository records the listing may hold: two well-formed ones (the second
\* with a null language and a name with whitespace) and three that lack a field
BBRepoRecords ==
  { [name |-> "a", language |-> "python", links |-> [forks |-> [href |-> "forks/a"]]],
    [name |-> "b c", language |-> None, links |-> [forks |-> [href |-> "forks/b-c"]]],
    [name |-> "a", links |-> [forks |-> [href |-> "forks/a"]]],
    [name |-> "a", language |-> "python"],
    [language |-> "python", links |-> [forks |-> [href |-> "forks/a"]]] }

\* an entry of a follower, watcher or fork listing (only counted)
BBEntry == [display_name |-> "u"]

BBEntries(ctx) == IF ctx = "repos" THEN BBRepoRecords ELSE {BBEntry}

\* opaque next-page URLs the server may hand out
BBCursors == {"cursor/x", "cursor/y"}

\* the bodies the server may answer to a request at `url`, having served `pages`
\* for this listing: 'values' present or not, 'next' absent, null, empty or the URL
\* of a page not served yet (the pages of a listing form a chain)
BBBodies(url, ctx, pages, reqs) ==
  LET Vs == SeqsUpTo(BBEntries(ctx), MaxRecords - SumLen(pages, "values"))
      Ns == {None, EmptyStr}
            \cup (IF Len(pages) + 1 < MaxPages
                  THEN BBCursors \ (Range(reqs) \cup {url}) ELSE {})
  IN  {[pagelen |-> 100, values |-> v, next |-> n] : v \in Vs, n \in Ns}
      \cup {[pagelen |-> 100, values |-> v] : v \in Vs}
      \cup {[pagelen |-> 100, next |-> n] : n \in Ns}
      \cup {[pagelen |-> 100]}

BBNoBody == [pagelen |-> 0]

\* make_api_call(url): the parsed body when the response is ok, ValueError when
\* it is not, ConnectionResetError when requests raises
BB_make_api_call(url, ctx, pages, reqs) ==
  Answers({[kind |-> "ok", body |-> b] : b \in BBBodies(url, ctx, pages, reqs)}
          \cup {[kind |-> "ValueError", body |-> BBNoBody],
                [kind |-> "ConnectionResetError", body |-> BBNoBody]}, url)

\* the one request of update_repo_count: a fork listing, with or without 'values'
BB_fork_call(url) ==
  Answers({[kind |-> "ok", body |-> [pagelen |-> 100, values |-> v]] :
              v \in SeqsUpTo({BBEntry}, MaxRecords)}
          \cup {[kind |-> "ok", body |-> [pagelen |-> 100]],
                [kind |-> "ValueError", body |-> BBNoBody],
                [kind |-> "ConnectionResetError", body |-> BBNoBody]}, url)

\* ------------------------------------------------------ Bitbucket collector
EmptyDict == [k \in {} |-> None]

NoSnapshot == [set |-> FALSE]

BBSnapshot(followers, languages, repos, watchers) ==
  [set |-> TRUE, followers |-> followers, languages |-> languages, repos |-> repos,
   watchers |-> watchers]

\* process_repos: repos = self.get_all_results(url, data=True) has not returned / has
\* returned `records`: how many, and whether each has the fields the loop reads
NotListed == [set |-> FALSE]

BBListed(records) ==
  [set |-> TRUE, count |-> Len(records),
   wellformed |-> \A i \in DOMAIN records :
                    {"language", "links", "name"} \subseteq DOMAIN records[i]]

\* a variant that counts the keys of the body instead of its records
get_result_len_body(page_results, data) ==
  IF "values" \in DOMAIN page_results
  THEN (IF data THEN page_results["values"] ELSE Cardinality(DOMAIN page_results))
  ELSE (IF data THEN <<>> ELSE 0)

\* get_result(page_results, data): the records or their number; KeyError on
\* 'values' gives the empty list or zero
get_result(page_results, data) ==
  IF "values" \in DOMAIN page_results
  THEN (IF data THEN page_results["values"] ELSE Len(page_results["values"]))
  ELSE (IF data THEN <<>> ELSE 0)

\* a variant that puts the new page in front
bb_accumulate_prepend(paginated_results, page_result, data) ==
  IF data THEN page_result \o paginated_results ELSE paginated_results + page_result

\* paginated_results += <result of the page> (list extension or integer addition)
bb_accumulate(paginated_results, page_result, data) ==
  IF data THEN paginated_results \o page_result ELSE paginated_results + page_result

\* a variant that falls back to the initial value
bb_on_ValueError_reset(paginated_results, data) == IF data THEN <<>> ELSE 0

\* what get_all_results returns when ValueError stops the loop
bb_on_ValueError(paginated_results, data) == paginated_results

\* a variant that asks again for the page it has just read
bb_next_link_same(page_results, link) ==
  IF Truthy(Get(page_results, "next")) THEN link ELSE None

\* the link of the next request: page_results.get('next')
bb_next_link(page_results, link) == Get(page_results, "next")

\* an exception no handler catches leaves make_response()
BBRaise(exc) == bb_pc' = "raised" /\ bb_exc' = exc

\* a variant without the handler: the exception leaves make_response()
bb_no_handler == "raised"

\* where make_response() continues when ConnectionResetError reaches it: its
\* handler passes, and the results are filled in
bb_on_ConnectionResetError == "finalize"

\* get_all_results up to its first request
BBStartPaging(link, data, ctx) ==
  /\ bb_link' = link
  /\ bb_data' = data
  /\ bb_paginated_results' = (IF data THEN <<>> ELSE 0)
  /\ bb_ctx' = ctx
  /\ bb_reqs' = <<>>
  /\ bb_pages' = <<>>
  /\ bb_halt' = "running"
  /\ bb_ret' = None
  /\ bb_pc' = "paging"

\* a variant that leaves the for loop one repository early
bb_for_exhausted_early(todo) == Len(todo) <= 1

\* process_repos: the for loop over the listed repositories is over, and
\* get_followers_count() is next
bb_for_exhausted(todo) == todo = <<>>

\* a variant that keeps only a count no failure cut short
bb_add_followers_complete(followers, results, how) ==
  IF how = "end" THEN followers + results ELSE followers

\* get_followers_count: self.followers += results, whichever way the paginator ended
bb_add_followers(followers, results, how) == followers + results

\* get_all_results returns `ret` to its caller, which runs up to its next request:
\* process_repos starts the for loop, update_watchers_count adds to watchers and the
\* loop moves on, get_followers_count adds to followers and process_repos returns
BBReturn(ret, how) ==
  /\ bb_halt' = how
  /\ bb_ret' = ret
  /\ bb_todo' = CASE bb_ctx = "repos" -> ret
                  [] bb_ctx = "watchers" -> Tail(bb_todo)
                  [] OTHER -> bb_todo
  /\ bb_watchers' = IF bb_ctx = "watchers" THEN bb_watchers + ret ELSE bb_watchers
  /\ bb_followers' = IF bb_ctx = "followers"
                    THEN bb_add_followers(bb_followers, ret, how) ELSE bb_followers
  /\ bb_pc' = CASE bb_ctx = "followers" -> "finalize"
                [] bb_for_exhausted(bb_todo') -> "followers"
                [] OTHER -> "repo"

\* make_response() is called: process_repos() starts the repository listing
BB_make_response ==
  /\ collector \in {"bitbucket", "both"}
  /\ UNCHANGED <<collector, transport, ghVars, cbVars>>
  /\ bb_pc = "start"
  /\ BBStartPaging(BBReposUrl, TRUE, "repos")
  /\ UNCHANGED <<bb_followers, bb_languages, bb_repos, bb_results, bb_watchers,
                 bb_exc, bb_todo, bb_fork, bb_conn, bb_listed, bb_classified>>

\* one iteration of the while loop of get_all_results
BB_get_all_results ==
  /\ collector \in {"bitbucket", "both"}
  /\ UNCHANGED <<collector, transport, ghVars, cbVars>>
  /\ bb_pc = "paging"
  /\ \E out \in BB_make_api_call(bb_link, bb_ctx, bb_pages, bb_reqs) :
       /\ bb_reqs' = Append(bb_reqs, bb_link)
       /\ \/ /\ out.kind = "ok"
             /\ bb_pages' = Append(bb_pages, out.body)
             /\ bb_paginated_results' =
                  bb_accumulate(bb_paginated_results, get_result(out.body, bb_data), bb_data)
             /\ bb_link' = bb_next_link(out.body, bb_link)
             /\ IF Truthy(bb_link')
                THEN /\ bb_pc' = "paging"
                     /\ UNCHANGED <<bb_halt, bb_ret, bb_todo, bb_watchers, bb_followers>>
                ELSE BBReturn(bb_paginated_results', "end")
             /\ UNCHANGED bb_conn
          \/ /\ out.kind = "ValueError"
             /\ BBReturn(bb_on_ValueError(bb_paginated_results, bb_data), "invalid")
             /\ UNCHANGED <<bb_pages, bb_paginated_results, bb_link, bb_conn>>
          \/ /\ out.kind = "ConnectionResetError"
             /\ bb_halt' = "conn"
             /\ bb_pc' = bb_on_ConnectionResetError
             /\ bb_conn' = BBSnapshot(bb_followers, bb_languages, bb_repos, bb_watchers)
             /\ UNCHANGED <<bb_pages, bb_paginated_results, bb_link, bb_ret, bb_todo,
                            bb_watchers, bb_followers>>
  /\ bb_listed' = IF bb_ctx = "repos" /\ bb_halt' \in {"end", "invalid"}
                  THEN BBListed(bb_ret') ELSE bb_listed
  /\ UNCHANGED <<bb_languages, bb_repos, bb_results, bb_exc, bb_data, bb_ctx, bb_fork,
                 bb_classified>>

\* a variant that counts in a dict the two collectors share
bb_classify_shared(repos, body) ==
  IF body["values"] # <<>>
  THEN [forked |-> gh_repos.forked + repos.forked + 1, unforked |-> repos.unforked]
  ELSE [forked |-> repos.forked, unforked |-> gh_repos.unforked + repos.unforked + 1]

\* update_repo_count: the counters after a fork listing `body` came back
bb_classify(repos, body) ==
  IF body["values"] # <<>>
  THEN [repos EXCEPT !.forked = @ + 1]
  ELSE [repos EXCEPT !.unforked = @ + 1]

\* a variant that counts an invalid fork listing as forked
bb_classify_invalid_forked(repos) == [repos EXCEPT !.forked = @ + 1]

\* update_repo_count: the counters after ValueError
bb_classify_invalid(repos) == [repos EXCEPT !.unforked = @ + 1]


\* one iteration of the for loop of process_repos, up to the first request of
\* update_watchers_count: update_languages, update_repo_count and its request
BB_process_repo ==
  /\ collector \in {"bitbucket", "both"}
  /\ UNCHANGED <<collector, transport, ghVars, cbVars>>
  /\ bb_pc = "repo"
  /\ UNCHANGED bb_listed
  /\ LET repo == Head(bb_todo) IN
     IF "language" \notin DOMAIN repo
     THEN /\ BBRaise("KeyError")
          /\ UNCHANGED <<bb_followers, bb_languages, bb_repos, bb_results, bb_watchers,
                         bb_link, bb_data, bb_paginated_results, bb_ctx, bb_todo,
                         bb_reqs, bb_pages, bb_halt, bb_ret, bb_fork, bb_conn,
                         bb_classified>>
     ELSE
       /\ bb_languages' = bb_languages \cup {repo["language"]}
       /\ UNCHANGED <<bb_followers, bb_results, bb_watchers, bb_todo>>
       /\ IF "links" \notin DOMAIN repo
          THEN /\ BBRaise("KeyError")
               /\ UNCHANGED <<bb_repos, bb_link, bb_data, bb_paginated_results, bb_ctx,
                              bb_reqs, bb_pages, bb_halt, bb_ret, bb_fork, bb_conn,
                              bb_classified>>
          ELSE
            \E out \in BB_fork_call(repo["links"]["forks"]["href"]) :
              LET link == repo["links"]["forks"]["href"]
                  seen(o) == [repo |-> repo, reqs |-> <<link>>, out |-> o,
                              before |-> bb_repos]
              IN
              \/ /\ out.kind = "ConnectionResetError"
                 /\ bb_fork' = seen("ConnectionResetError")
                 /\ bb_pc' = bb_on_ConnectionResetError
                 /\ bb_conn' = BBSnapshot(bb_followers, bb_languages', bb_repos,
                                          bb_watchers)
                 /\ UNCHANGED <<bb_repos, bb_exc, bb_link, bb_data, bb_paginated_results,
                                bb_ctx, bb_reqs, bb_pages, bb_halt, bb_ret,
                                bb_classified>>
              \/ /\ out.kind = "ok"
                 /\ "values" \notin DOMAIN out.body
                 /\ bb_fork' = seen("novalues")
                 /\ BBRaise("KeyError")
                 /\ UNCHANGED <<bb_repos, bb_link, bb_data, bb_paginated_results,
                                bb_ctx, bb_reqs, bb_pages, bb_halt, bb_ret, bb_conn,
                                bb_classified>>
              \/ /\ \/ /\ out.kind = "ok"
                       /\ "values" \in DOMAIN out.body
                       /\ bb_fork' = seen(IF out.body["values"] # <<>>
                                          THEN "nonempty" ELSE "empty")
                       /\ bb_repos' = bb_classify(bb_repos, out.body)
                    \/ /\ out.kind = "ValueError"
                       /\ bb_fork' = seen("ValueError")
                       /\ bb_repos' = bb_classify_invalid(bb_repos)
                 /\ bb_classified' = bb_classified + 1
                 /\ UNCHANGED bb_conn
                 /\ IF "name" \notin DOMAIN repo
                    THEN /\ BBRaise("KeyError")
                         /\ UNCHANGED <<bb_link, bb_data, bb_paginated_results, bb_ctx,
                                        bb_reqs, bb_pages, bb_halt, bb_ret>>
                    ELSE /\ BBStartPaging(BBWatchersUrl(repo["name"]), FALSE, "watchers")
                         /\ UNCHANGED bb_exc

\* get_followers_count() up to its first request
BB_get_followers_count ==
  /\ collector \in {"bitbucket", "both"}
  /\ UNCHANGED <<collector, transport, ghVars, cbVars>>
  /\ bb_pc = "followers"
  /\ BBStartPaging(BBFollowersUrl, FALSE, "followers")
  /\ UNCHANGED <<bb_followers, bb_languages, bb_repos, bb_results, bb_watchers,
                 bb_exc, bb_todo, bb_fork, bb_conn, bb_listed, bb_classified>>

\* the dict make_response() fills in and returns (bitbucket.py:102-107)
bb_make_results(results, followers, languages, repos, watchers) ==
  [followers |-> followers, languages |-> languages, repos |-> repos,
   watchers |-> watchers]

\* make_response() after process_repos() returned or ConnectionResetError was caught
BB_finalize ==
  /\ collector \in {"bitbucket", "both"}
  /\ UNCHANGED <<collector, transport, ghVars, cbVars>>
  /\ bb_pc = "finalize"
  /\ bb_results' = bb_make_results(bb_results, bb_followers, bb_languages, bb_repos,
                                   bb_watchers)
  /\ bb_pc' = "done"
  /\ UNCHANGED <<bb_followers, bb_languages, bb_repos, bb_watchers, bb_exc, bb_link,
                 bb_data, bb_paginated_results, bb_ctx, bb_todo, bb_reqs, bb_pages,
                 bb_halt, bb_ret, bb_fork, bb_conn, bb_listed, bb_classified>>

\* calls the caller may make on a collector after make_response() has returned
MaxLater == 1

\* the dict make_response() returned is self.results, and its 'languages' and
\* 'repos' entries are the set and the dict the instance keeps updating
\* (bitbucket.py:103-104): what the caller's dict holds after an update
bb_returned_dict(results, languages, repos) ==
  [results EXCEPT !.languages = languages, !.repos = repos]

\* update_languages(language), called after make_response() has returned
BB_later_update_languages ==
  /\ collector \in {"bitbucket", "both"}
  /\ UNCHANGED <<collector, transport, ghVars, cbVars>>
  /\ bb_pc = "done"
  /\ \E language \in {"python", "java"} :
       bb_languages' = bb_languages \cup {language}
  /\ bb_results' = bb_returned_dict(bb_results, bb_languages', bb_repos)
  /\ UNCHANGED <<bb_followers, bb_repos, bb_watchers, bb_pc, bb_exc, bb_link, bb_data,
                 bb_paginated_results, bb_ctx, bb_todo, bb_reqs, bb_pages, bb_halt,
                 bb_ret, bb_fork, bb_conn, bb_listed, bb_classified>>

\* update_repo_count(link), called after make_response() has returned, when its
\* request gives a fork listing or ValueError
BB_later_update_repo_count ==
  /\ collector \in {"bitbucket", "both"}
  /\ UNCHANGED <<collector, transport, ghVars, cbVars>>
  /\ bb_pc = "done"
  /\ bb_classified < MaxRecords + MaxLater
  /\ \E out \in BB_fork_call("forks/a") :
       LET seen(o) == [repo |-> [links |-> [forks |-> [href |-> "forks/a"]]],
                       reqs |-> <<"forks/a">>, out |-> o, before |-> bb_repos]
       IN
       \/ /\ out.kind = "ok"
          /\ "values" \in DOMAIN out.body
          /\ bb_fork' = seen(IF out.body["values"] # <<>> THEN "nonempty" ELSE "empty")
          /\ bb_repos' = bb_classify(bb_repos, out.body)
       \/ /\ out.kind = "ValueError"
          /\ bb_fork' = seen("ValueError")
          /\ bb_repos' = bb_classify_invalid(bb_repos)
  /\ bb_classified' = bb_classified + 1
  /\ bb_results' = bb_returned_dict(bb_results, bb_languages, bb_repos')
  /\ UNCHANGED <<bb_followers, bb_languages, bb_watchers, bb_pc, bb_exc, bb_link,
                 bb_data, bb_paginated_results, bb_ctx, bb_todo, bb_reqs, bb_pages,
                 bb_halt, bb_ret, bb_conn, bb_listed>>

BBInit ==
  /\ bb_followers = 0
  /\ bb_languages = {}
  /\ bb_repos = [forked |-> 0, unforked |-> 0]
  /\ bb_results = EmptyDict
  /\ bb_watchers = 0
  /\ bb_pc = "start"
  /\ bb_exc = "none"
  /\ bb_link = None
  /\ bb_data = TRUE
  /\ bb_paginated_results = <<>>
  /\ bb_ctx = "none"
  /\ bb_todo = <<>>
  /\ bb_reqs = <<>>
  /\ bb_pages = <<>>
  /\ bb_halt = "none"
  /\ bb_ret = None
  /\ bb_fork = [repo |-> EmptyDict, reqs |-> <<>>, out |-> "none",
                before |-> [forked |-> 0, unforked |-> 0]]
  /\ bb_conn = NoSnapshot
  /\ bb_listed = NotListed
  /\ bb_classified = 0

\* =================================================================== Github
\* --------------------------------------------------------- Github transport
\* most pages a link header announces
MaxLastPage == 3

\* URLs built by the collector (github.py:119, 79, 138, 64)
GHReposUrl == "orgs/org/repos?per_page=100"
GHFollowersUrl == "users/org/followers?per_page=1"
GHLanguagesUrl(repo) == "repos/org/" \o repo \o "/languages"
GHPageUrl(link, page) == link \o "&page=" \o ToString(page)

\* repository records the listing may hold: two well-formed ones (the second
\* without the optional 'topics') and three that lack a field
GHRepoRecords ==
  { [name |-> "a", fork |-> TRUE, topics |-> <<"flask", "api">>, watchers |-> 1],
    [name |-> "b", fork |-> FALSE, watchers |-> 2],
    [fork |-> TRUE, watchers |-> 1],
    [name |-> "a", watchers |-> 1],
    [name |-> "a", fork |-> TRUE] }

GHEntry == [login |-> "u"]

\* A link header is the sequence of its entries '<URL?per_page=..&page=P>; rel="R"'.
\* On the first page of a listing Github sends rel="next", then rel="last".
GHLinkHeaders ==
  {<<[rel |-> "next", page |-> 2], [rel |-> "last", page |-> n]>> : n \in 2..MaxLastPage}

\* response headers: none, others only, or a link header ('' is <<>>)
GHHeaders ==
  {EmptyDict, [server |-> "GitHub.com"], [server |-> "GitHub.com", link |-> <<>>]}
  \cup {[server |-> "GitHub.com", link |-> h] : h \in GHLinkHeaders}

GHNoResponse == [results |-> <<>>, headers |-> EmptyDict]

GHFailures ==
  {[kind |-> "ValueError", data |-> GHNoResponse],
   [kind |-> "ConnectionResetError", data |-> GHNoResponse]}

\* make_api_call(url) on a page of a listing, `pages` having been served: the
\* dict {'results': res.json(), 'headers': res.headers}, ValueError or
\* ConnectionResetError.  Only a first page carries a link header.
GH_make_api_call(url, entries, pages) ==
  Answers({[kind |-> "ok", data |-> [results |-> v, headers |-> h]] :
              v \in SeqsUpTo(entries, MaxRecords - SumLen(pages, "results")),
              h \in IF pages = <<>> THEN GHHeaders
                    ELSE {EmptyDict, [server |-> "GitHub.com"]}}
          \cup GHFailures, url)

\* language names, as Github spells them, to the bytes of code in each
GHLanguageDicts == {[k \in ks |-> 100] : ks \in SUBSET {"Python", "python"}}

\* make_api_call(url, headers) of update_languages
GH_languages_call(url) ==
  Answers({[kind |-> "ok", data |-> [results |-> d, headers |-> EmptyDict]] :
              d \in GHLanguageDicts}
          \cup GHFailures, url)

\* ---------------------------------------------------------- Github collector
\* str.lower()
Lower(str) == IF str = "Python" THEN "python" ELSE str

\* headers.get('link') is true: the key is there and the header is not ''
HasLink(headers) == "link" \in DOMAIN headers /\ headers["link"] # <<>>

\* get_total_pages(link_header): 'page=(.*)>;' is greedy, so findall gives one match,
\* from the first 'page=' to the last '>;'; split('page=')[-1] is what follows the
\* last 'page=' in it: the page number of the last entry of the header
get_total_pages(link_header) == link_header[Len(link_header)].page

\* a variant that reads the first entry of the header
gh_followers_from_first(link_header) == link_header[1].page

\* the same expression in get_followers_count (github.py:83)
gh_followers_from_link(link_header) == link_header[Len(link_header)].page

\* a variant looping over range(2, total_pages)
gh_more_pages_short(page, total_pages) == page + 1 < total_pages

\* range(2, total_pages + 1), as the pages still to request after `page`
gh_more_pages(page, total_pages) == page < total_pages

\* what the first response makes of the loop bound
gh_pages_announced(data) ==
  IF HasLink(data.headers) THEN get_total_pages(data.headers["link"]) ELSE 1

\* results += data['results']
gh_accumulate(results, page_results) == results \o page_results

\* what get_all_repos returns when ValueError stops it
gh_on_ValueError(results) == results

gh_on_ConnectionResetError == "finalize"

GHRaise(exc) == gh_pc' = "raised" /\ gh_exc' = exc

GHSnapshot(followers, languages, repos, topics, watchers) ==
  [set |-> TRUE, followers |-> followers, languages |-> languages, repos |-> repos,
   topics |-> topics, watchers |-> watchers]

\* process_repos: the for loop over the listed repositories is over, and
\* get_followers_count() is next
gh_for_exhausted(todo) == todo = <<>>

\* get_all_repos returns `ret`; process_repos starts its for loop
GHReturn(ret, how) ==
  /\ gh_halt' = how
  /\ gh_ret' = ret
  /\ gh_todo' = ret
  /\ gh_pc' = IF gh_for_exhausted(ret) THEN "followers" ELSE "repo"

\* make_response() is called: process_repos() calls get_all_repos(url)
GH_make_response ==
  /\ collector \in {"github", "both"}
  /\ UNCHANGED <<collector, transport, bbVars, cbVars>>
  /\ gh_pc = "start"
  /\ gh_link' = GHReposUrl
  /\ gh_all_repos' = <<>>
  /\ gh_reqs' = <<>>
  /\ gh_pages' = <<>>
  /\ gh_halt' = "running"
  /\ gh_ret' = <<>>
  /\ gh_pc' = "first"
  /\ UNCHANGED <<gh_followers, gh_languages, gh_repos, gh_results, gh_topics,
                 gh_watchers, gh_exc, gh_total_pages, gh_page, gh_todo, gh_fol, gh_conn>>

\* one request of get_all_repos at `url`, the loop standing at `page`
GHFetchPage(url, page) ==
  \E out \in GH_make_api_call(url, GHRepoRecords, gh_pages) :
    /\ gh_reqs' = Append(gh_reqs, url)
    /\ \/ /\ out.kind = "ok"
          /\ gh_pages' = Append(gh_pages, out.data)
          /\ gh_all_repos' = gh_accumulate(gh_all_repos, out.data.results)
          /\ gh_total_pages' = IF page = 1 THEN gh_pages_announced(out.data)
                               ELSE gh_total_pages
          /\ gh_page' = page
          /\ IF gh_more_pages(page, gh_total_pages')
             THEN /\ gh_pc' = "pages"
                  /\ UNCHANGED <<gh_halt, gh_ret, gh_todo>>
             ELSE GHReturn(gh_all_repos', "end")
          /\ UNCHANGED gh_conn
       \/ /\ out.kind = "ValueError"
          /\ GHReturn(gh_on_ValueError(gh_all_repos), "invalid")
          /\ UNCHANGED <<gh_pages, gh_all_repos, gh_total_pages, gh_page, gh_conn>>
       \/ /\ out.kind = "ConnectionResetError"
          /\ gh_halt' = "conn"
          /\ gh_pc' = gh_on_ConnectionResetError
          /\ gh_conn' = GHSnapshot(gh_followers, gh_languages, gh_repos, gh_topics,
                                   gh_watchers)
          /\ UNCHANGED <<gh_pages, gh_all_repos, gh_total_pages, gh_page, gh_ret, gh_todo>>

\* get_all_repos: the request at the original URL
GH_get_all_repos_first ==
  /\ collector \in {"github", "both"}
  /\ UNCHANGED <<collector, transport, bbVars, cbVars>>
  /\ gh_pc = "first"
  /\ GHFetchPage(gh_link, 1)
  /\ UNCHANGED <<gh_followers, gh_languages, gh_repos, gh_results, gh_topics,
                 gh_watchers, gh_exc, gh_link, gh_fol>>

\* get_all_repos: one iteration of the for loop over range(2, total_pages + 1)
GH_get_all_repos_page ==
  /\ collector \in {"github", "both"}
  /\ UNCHANGED <<collector, transport, bbVars, cbVars>>
  /\ gh_pc = "pages"
  /\ GHFetchPage(GHPageUrl(gh_link, gh_page + 1), gh_page + 1)
  /\ UNCHANGED <<gh_followers, gh_languages, gh_repos, gh_results, gh_topics,
                 gh_watchers, gh_exc, gh_link, gh_fol>>

\* update_languages: the set after the languages dict `results` came back
gh_update_languages(languages, results) == languages \cup {Lower(k) : k \in DOMAIN results}

\* update_repo_count(forked)
gh_update_repo_count(repos, forked) ==
  IF forked THEN [repos EXCEPT !.forked = @ + 1] ELSE [repos EXCEPT !.unforked = @ + 1]

\* update_topics(repo.get('topics'))
gh_update_topics(topics, repo) ==
  IF "topics" \in DOMAIN repo /\ repo["topics"] # <<>>
  THEN topics \cup Range(repo["topics"])
  ELSE topics

\* one iteration of the for loop of process_repos: update_languages and its request,
\* update_repo_count, update_topics, update_watchers_count
GH_process_repo ==
  /\ collector \in {"github", "both"}
  /\ UNCHANGED <<collector, transport, bbVars, cbVars>>
  /\ gh_pc = "repo"
  /\ UNCHANGED <<gh_followers, gh_results, gh_link, gh_all_repos, gh_total_pages,
                 gh_page, gh_reqs, gh_pages, gh_halt, gh_ret, gh_fol>>
  /\ LET repo == Head(gh_todo) IN
     IF "name" \notin DOMAIN repo
     THEN /\ GHRaise("KeyError")
          /\ UNCHANGED <<gh_languages, gh_repos, gh_topics, gh_watchers, gh_todo, gh_conn>>
     ELSE
       \E out \in GH_languages_call(GHLanguagesUrl(repo["name"])) :
         \/ /\ out.kind = "ConnectionResetError"
            /\ gh_pc' = gh_on_ConnectionResetError
            /\ gh_conn' = GHSnapshot(gh_followers, gh_languages, gh_repos, gh_topics,
                                     gh_watchers)
            /\ UNCHANGED <<gh_languages, gh_repos, gh_topics, gh_watchers, gh_todo, gh_exc>>
         \/ /\ out.kind \in {"ok", "ValueError"}
            /\ gh_languages' = IF out.kind = "ok"
                               THEN gh_update_languages(gh_languages, out.data.results)
                               ELSE gh_languages
            /\ UNCHANGED gh_conn
            /\ IF "fork" \notin DOMAIN repo
               THEN /\ GHRaise("KeyError")
                    /\ UNCHANGED <<gh_repos, gh_topics, gh_watchers, gh_todo>>
               ELSE
                 /\ gh_repos' = gh_update_repo_count(gh_repos, repo["fork"])
                 /\ gh_topics' = gh_update_topics(gh_topics, repo)
                 /\ IF "watchers" \notin DOMAIN repo
                    THEN /\ GHRaise("KeyError")
                         /\ UNCHANGED <<gh_watchers, gh_todo>>
                    ELSE /\ gh_watchers' = gh_watchers + repo["watchers"]
                         /\ gh_todo' = Tail(gh_todo)
                         /\ gh_pc' = IF gh_for_exhausted(gh_todo')
                                      THEN "followers" ELSE "repo"
                         /\ UNCHANGED gh_exc

\* get_followers_count: the count after the response `data` came back
gh_count_followers(followers, data) ==
  IF DOMAIN data.headers # {} /\ HasLink(data.headers)
  THEN followers + gh_followers_from_link(data.headers["link"])
  ELSE followers + Len(data.results)

\* get_followers_count(), after which process_repos() returns
GH_get_followers_count ==
  /\ collector \in {"github", "both"}
  /\ UNCHANGED <<collector, transport, bbVars, cbVars>>
  /\ gh_pc = "followers"
  /\ \E out \in GH_make_api_call(GHFollowersUrl, {GHEntry}, <<>>) :
       /\ gh_fol' = [reqs |-> <<GHFollowersUrl>>, out |-> out.kind, data |-> out.data,
                     before |-> gh_followers]
       /\ \/ /\ out.kind = "ok"
             /\ gh_followers' = gh_count_followers(gh_followers, out.data)
             /\ gh_pc' = "finalize"
             /\ UNCHANGED gh_conn
          \/ /\ out.kind = "ValueError"
             /\ gh_pc' = "finalize"
             /\ UNCHANGED <<gh_followers, gh_conn>>
          \/ /\ out.kind = "ConnectionResetError"
             /\ gh_pc' = gh_on_ConnectionResetError
             /\ gh_conn' = GHSnapshot(gh_followers, gh_languages, gh_repos, gh_topics,
                                      gh_watchers)
             /\ UNCHANGED gh_followers
  /\ UNCHANGED <<gh_languages, gh_repos, gh_results, gh_topics, gh_watchers, gh_exc,
                 gh_link, gh_all_repos, gh_total_pages, gh_page, gh_todo, gh_reqs,
                 gh_pages, gh_halt, gh_ret>>

\* the dicts make_response() may return (github.py:106-112): list(self.topics)
\* enumerates the set in an order the code does not fix
gh_make_results(followers, languages, repos, topics, watchers) ==
  {[followers |-> followers, languages |-> languages, repos |-> repos,
    topics |-> t, watchers |-> watchers] : t \in ListsOf(topics)}

\* make_response() after process_repos() returned or ConnectionResetError was caught
GH_finalize ==
  /\ collector \in {"github", "both"}
  /\ UNCHANGED <<collector, transport, bbVars, cbVars>>
  /\ gh_pc = "finalize"
  /\ gh_results' \in gh_make_results(gh_followers, gh_languages, gh_repos, gh_topics,
                                     gh_watchers)
  /\ gh_pc' = "done"
  /\ UNCHANGED <<gh_followers, gh_languages, gh_repos, gh_topics, gh_watchers, gh_exc,
                 gh_link, gh_all_repos, gh_total_pages, gh_page, gh_todo, gh_reqs,
                 gh_pages, gh_halt, gh_ret, gh_fol, gh_conn>>

\* the dict make_response() returned is self.results; its 'languages' and 'repos'
\* entries are the set and the dict the instance keeps updating, its 'topics' entry
\* is a list made at the time (github.py:108-110)
gh_returned_dict(results, languages, repos) ==
  [results EXCEPT !.languages = languages, !.repos = repos]

\* update_repo_count(forked), called after make_response() has returned
GH_later_update_repo_count ==
  /\ collector \in {"github", "both"}
  /\ UNCHANGED <<collector, transport, bbVars, cbVars>>
  /\ gh_pc = "done"
  /\ gh_repos.forked + gh_repos.unforked < MaxRecords + MaxLater
  /\ \E forked \in BOOLEAN : gh_repos' = gh_update_repo_count(gh_repos, forked)
  /\ gh_results' = gh_returned_dict(gh_results, gh_languages, gh_repos')
  /\ UNCHANGED <<gh_followers, gh_languages, gh_topics, gh_watchers, gh_pc, gh_exc,
                 gh_link, gh_all_repos, gh_total_pages, gh_page, gh_todo, gh_reqs,
                 gh_pages, gh_halt, gh_ret, gh_fol, gh_conn>>

\* update_topics(topics), called after make_response() has returned
GH_later_update_topics ==
  /\ collector \in {"github", "both"}
  /\ UNCHANGED <<collector, transport, bbVars, cbVars>>
  /\ gh_pc = "done"
  /\ \E repo \in {[topics |-> <<"flask">>], [topics |-> <<"cli">>]} :
       gh_topics' = gh_update_topics(gh_topics, repo)
  /\ UNCHANGED <<gh_followers, gh_languages, gh_repos, gh_results, gh_watchers, gh_pc,
                 gh_exc, gh_link, gh_all_repos, gh_total_pages, gh_page, gh_todo,
                 gh_reqs, gh_pages, gh_halt, gh_ret, gh_fol, gh_conn>>

GHInit ==
  /\ gh_followers = 0
  /\ gh_languages = {}
  /\ gh_repos = [forked |-> 0, unforked |-> 0]
  /\ gh_results = EmptyDict
  /\ gh_topics = {}
  /\ gh_watchers = 0
  /\ gh_pc = "start"
  /\ gh_exc = "none"
  /\ gh_link = None
  /\ gh_all_repos = <<>>
  /\ gh_total_pages = 1
  /\ gh_page = 1
  /\ gh_todo = <<>>
  /\ gh_reqs = <<>>
  /\ gh_pages = <<>>
  /\ gh_halt = "none"
  /\ gh_ret = <<>>
  /\ gh_fol = [reqs |-> <<>>, out |-> "none", data |-> GHNoResponse, before |-> 0]
  /\ gh_conn = NoSnapshot

\* ================================================================== combine
\* largest value of a counter in an argument of combine
MaxCount == 1

\* the arguments: what Bitbucket.make_response() and Github.make_response() return
\* (routes.py:54-57), the topics being the list Github makes of its set
CbBitbucketResults ==
  [followers : 0..MaxCount, languages : SUBSET {"python", "java"},
   repos : [forked : 0..MaxCount, unforked : 0..MaxCount], watchers : 0..MaxCount]

CbGithubResults ==
  [followers : 0..MaxCount, languages : SUBSET {"python", "javascript"},
   repos : [forked : 0..MaxCount, unforked : 0..MaxCount],
   topics : {<<>>, <<"flask">>, <<"flask", "api">>}, watchers : 0..MaxCount]

\* a variant that concatenates the two language lists
combine_languages_concat(bitbucket, github) ==
  {a \o b : a \in ListsOf(bitbucket.languages), b \in ListsOf(github.languages)}

\* the lists list(languages) may be, languages being the set updated with both
\* arguments' languages (combine.py:18-21)
combine_languages(bitbucket, github) ==
  ListsOf(bitbucket.languages \cup github.languages)

\* a variant that takes the unforked count from one argument only
combine_repos_one_sided(bitbucket, github) ==
  LET forked == bitbucket.repos.forked + github.repos.forked
      unforked == github.repos.unforked
  IN  [forked |-> forked, unforked |-> unforked, count |-> forked + unforked]

\* results['repos'] (combine.py:27-29)
combine_repos(bitbucket, github) ==
  LET forked == bitbucket.repos.forked + github.repos.forked
      unforked == bitbucket.repos.unforked + github.repos.unforked
  IN  [forked |-> forked, unforked |-> unforked, count |-> forked + unforked]

\* the dicts combine(bitbucket, github) may return
combine(bitbucket, github) ==
  {[followers |-> bitbucket.followers + github.followers,
    languages |-> [list |-> l, count |-> Len(l)],
    topics |-> [list |-> github.topics, count |-> Len(github.topics)],
    repos |-> combine_repos(bitbucket, github),
    watchers |-> bitbucket.watchers + github.watchers] :
      l \in combine_languages(bitbucket, github)}

\* results = combine(bitbucket_results, github_results)
Combine ==
  /\ cb_pc = "start"
  /\ cb_results' \in combine(cb_bitbucket, cb_github)
  /\ cb_pc' = "done"
  /\ UNCHANGED <<collector, transport, bbVars, ghVars, cb_bitbucket, cb_github>>

CbIdle ==
  /\ cb_bitbucket = EmptyDict
  /\ cb_github = EmptyDict
  /\ cb_results = EmptyDict
  /\ cb_pc = "idle"

\* ============================================================ specification
vars == <<collector, transport, bbVars, ghVars, cbVars>>

\* the caller constructs both collectors (routes.py:51-52) and drives one
Init ==
  /\ collector \in {"bitbucket", "github"}
  /\ transport = FreeTransport
  /\ BBInit /\ GHInit /\ CbIdle

Next ==
  \/ BB_make_response
  \/ BB_get_all_results
  \/ BB_process_repo
  \/ BB_get_followers_count
  \/ BB_finalize
  \/ GH_make_response
  \/ GH_get_all_repos_first
  \/ GH_get_all_repos_page
  \/ GH_process_repo
  \/ GH_get_followers_count
  \/ GH_finalize

Spec == Init /\ [][Next]_vars

\* the caller goes on using a collector after make_response() has returned
NextReuse ==
  \/ BB_make_response
  \/ BB_get_all_results
  \/ BB_process_repo
  \/ BB_get_followers_count
  \/ BB_finalize
  \/ BB_later_update_languages
  \/ BB_later_update_repo_count
  \/ GH_make_response
  \/ GH_get_all_repos_first
  \/ GH_get_all_repos_page
  \/ GH_process_repo
  \/ GH_get_followers_count
  \/ GH_finalize
  \/ GH_later_update_repo_count
  \/ GH_later_update_topics

SpecReuse == Init /\ [][NextReuse]_vars

\* ------------------------------------------- both collectors, one fixed server
\* what a deterministic server may hold at the URLs of the two collectors: a
\* Bitbucket listing of two pages, a Github listing of two pages, followers and
\* watchers, with a failure or none at one request of each kind
BothUrls ==
  {BBReposUrl, "cursor/x", "forks/a", "forks/b-c", BBWatchersUrl("a"),
   BBWatchersUrl("b c"), BBFollowersUrl, "cursor/y",
   GHReposUrl, GHPageUrl(GHReposUrl, 2), GHLanguagesUrl("a"), GHLanguagesUrl("b"),
   GHFollowersUrl}

BBOk(body) == [kind |-> "ok", body |-> body]
BBFail(kind) == [kind |-> kind, body |-> BBNoBody]
GHOk(results, headers) == [kind |-> "ok", data |-> [results |-> results, headers |-> headers]]
GHFail(kind) == [kind |-> kind, data |-> GHNoResponse]

BothRecordA == [name |-> "a", language |-> "python",
                links |-> [forks |-> [href |-> "forks/a"]]]
BothRecordB == [name |-> "b c", language |-> None,
                links |-> [forks |-> [href |-> "forks/b-c"]]]

\* the outcomes a server of the set may hold at `url`, in a fixed order
BothChoices(url) ==
  CASE url = BBReposUrl ->
         <<BBOk([pagelen |-> 100, values |-> <<BothRecordA>>, next |-> "cursor/x"])>>
    [] url = "cursor/x" ->
         <<BBOk([pagelen |-> 100, values |-> <<BothRecordB>>]),
          BBFail("ValueError"), BBFail("ConnectionResetError")>>
    [] url = "forks/a" ->
         <<BBOk([pagelen |-> 100, values |-> <<BBEntry>>]), BBFail("ValueError")>>
    [] url = "forks/b-c" -> <<BBOk([pagelen |-> 100, values |-> <<>>])>>
    [] url = BBWatchersUrl("a") ->
         <<BBOk([pagelen |-> 100, values |-> <<BBEntry>>]),
          BBFail("ConnectionResetError")>>
    [] url = BBWatchersUrl("b c") ->
         <<BBOk([pagelen |-> 100, values |-> <<BBEntry, BBEntry>>])>>
    [] url = BBFollowersUrl ->
         <<BBOk([pagelen |-> 100, values |-> <<BBEntry>>, next |-> "cursor/y"])>>
    [] url = "cursor/y" ->
         <<BBOk([pagelen |-> 100, values |-> <<BBEntry>>, next |-> None]),
          BBFail("ValueError")>>
    [] url = GHReposUrl ->
         <<GHOk(<<[name |-> "a", fork |-> TRUE, topics |-> <<"flask", "api">>,
                  watchers |-> 1]>>,
               [server |-> "GitHub.com",
                link |-> <<[rel |-> "next", page |-> 2], [rel |-> "last", page |-> 2]>>])>>
    [] url = GHPageUrl(GHReposUrl, 2) ->
         <<GHOk(<<[name |-> "b", fork |-> FALSE, watchers |-> 2]>>,
               [server |-> "GitHub.com"]),
          GHFail("ValueError"), GHFail("ConnectionResetError")>>
    [] url = GHLanguagesUrl("a") ->
         <<GHOk([k \in {"Python"} |-> 100], EmptyDict), GHFail("ValueError")>>
    [] url = GHLanguagesUrl("b") ->
         <<GHOk([k \in {"python"} |-> 100], EmptyDict),
          GHFail("ConnectionResetError")>>
    [] OTHER ->
         <<GHOk(<<GHEntry>>, [server |-> "GitHub.com",
                             link |-> <<[rel |-> "next", page |-> 2],
                                        [rel |-> "last", page |-> 3]>>]),
          GHOk(<<GHEntry>>, [server |-> "GitHub.com"])>>

\* the deterministic servers: one outcome at each URL
BothTransports ==
  LET varied == {u \in BothUrls : Len(BothChoices(u)) > 1}
      picks == {c \in [varied -> 1..3] : \A u \in varied : c[u] <= Len(BothChoices(u))}
  IN  {FixedTransport([u \in BothUrls |->
                         BothChoices(u)[IF u \in varied THEN c[u] ELSE 1]]) :
         c \in picks}

\* the caller constructs both collectors (routes.py:51-52); the steps of the two
\* make_response() runs are taken in any order, against one deterministic server
InitBoth ==
  /\ collector = "both"
  /\ transport \in BothTransports
  /\ BBInit /\ GHInit /\ CbIdle

NextBoth ==
  \/ BB_make_response
  \/ BB_get_all_results
  \/ BB_process_repo
  \/ BB_get_followers_count
  \/ BB_finalize
  \/ GH_make_response
  \/ GH_get_all_repos_first
  \/ GH_get_all_repos_page
  \/ GH_process_repo
  \/ GH_get_followers_count
  \/ GH_finalize

SpecBoth == InitBoth /\ [][NextBoth]_vars

\* combine on its own, over every pair of arguments within the bounds
InitCombine ==
  /\ collector = "none" /\ BBInit /\ GHInit
  /\ transport = FreeTransport
  /\ cb_bitbucket \in CbBitbucketResults
  /\ cb_github \in CbGithubResults
  /\ cb_results = EmptyDict
  /\ cb_pc = "start"

NextCombine == Combine

SpecCombine == InitCombine /\ [][NextCombine]_vars

\* =================================================================== claims
IsPrefix(p, q) == Len(p) <= Len(q) /\ \A i \in 1..Len(p) : p[i] = q[i]

\* the page number a link header gives under rel="last"
LastPageByRel(link_header) == (CHOOSE e \in Range(link_header) : e.rel = "last").page

\* the number of pages the first response of a Github listing announces
AnnouncedPages(first) ==
  IF "link" \in DOMAIN first.headers /\ first.headers["link"] # <<>>
  THEN LastPageByRel(first.headers["link"])
  ELSE 1

\* the requests of a Github listing of n pages at `link`: the original URL, then
\* the URL with 'page=k' appended for k = 2..n
GHExpectedReqs(link, n) ==
  [k \in 1..n |-> IF k = 1 THEN link ELSE link \o "&page=" \o ToString(k)]

\* C1: a record-mode fetch in which no fetch fails returns the concatenation of the
\* pages' record lists in page order: Bitbucket.get_all_results(link, data=True) over
\* the chain of pages it followed, Github.get_all_repos(link) over the N pages the
\* first response's link header announces.
C1_RecordsConcatenated ==
  /\ (bb_halt = "end" /\ bb_data) => bb_ret = ConcatValues(bb_pages, "values")
  /\ gh_halt = "end" =>
       /\ Len(gh_pages) = AnnouncedPages(gh_pages[1])
       /\ gh_ret = ConcatValues(gh_pages, "results")

\* two pages of one record each came back, and the two records differ
C1_Witness ==
  /\ bb_halt = "end" /\ bb_data
  /\ Len(bb_pages) = 2
  /\ \A i \in 1..2 : "values" \in DOMAIN bb_pages[i] /\ Len(bb_pages[i]["values"]) = 1
  /\ bb_pages[1]["values"] # bb_pages[2]["values"]

\* C2: a count-mode fetch returns the sum, over the pages fetched before pagination
\* ended, of the number of records under 'values' (0 for a page without 'values').
C2_CountIsSum ==
  (bb_halt \in {"end", "invalid"} /\ ~bb_data) => bb_ret = SumLen(bb_pages, "values")

\* two pages were counted, one of two records and one without 'values'
C2_Witness ==
  /\ bb_halt = "end" /\ ~bb_data
  /\ Len(bb_pages) = 2
  /\ \E i \in 1..2 : "values" \notin DOMAIN bb_pages[i]
  /\ bb_ret = 2

\* C3: when the fetch of page k fails with ValueError the paginator stops: the failed
\* request is its last, it returns to its caller, and the value returned is what
\* pages 1..k-1 contributed.
C3_ValueErrorHalts ==
  /\ bb_halt = "invalid" =>
       /\ Len(bb_reqs) = Len(bb_pages) + 1
       /\ bb_pc # "paging"
       /\ bb_ret = IF bb_data THEN ConcatValues(bb_pages, "values")
                   ELSE SumLen(bb_pages, "values")
  /\ gh_halt = "invalid" =>
       /\ Len(gh_reqs) = Len(gh_pages) + 1
       /\ gh_pc \notin {"first", "pages"}
       /\ gh_ret = ConcatValues(gh_pages, "results")

\* the second page of a listing failed after the first had given a record
C3_Witness ==
  /\ bb_halt = "invalid"
  /\ Len(bb_pages) = 1
  /\ SumLen(bb_pages, "values") = 1

C6_MissingFieldNeverRaises ==
  /\ bb_pc # "raised" /\ bb_exc = "none"
  /\ gh_pc # "raised" /\ gh_exc = "none"

\* C7 as stated: once get_all_repos is over and its first response announced N
\* pages, it has requested the original URL and then each page 2..N, in order.
C7_AllPagesRequested ==
  (gh_halt \in {"end", "invalid", "conn"} /\ gh_pages # <<>>) =>
    gh_reqs = GHExpectedReqs(gh_link, AnnouncedPages(gh_pages[1]))

\* C7, amended: the requests of get_all_repos are, in order, the original URL and
\* then the pages 2..N announced by the first response, each at the original URL
\* with 'page=k' appended, up to the first request that fails; all of them when
\* none fails, and the original URL alone when there is no link header.
C7_PagesRequestedUntilFailure ==
  /\ gh_pages = <<>> => IsPrefix(gh_reqs, <<gh_link>>)
  /\ gh_pages # <<>> =>
       LET expected == GHExpectedReqs(gh_link, AnnouncedPages(gh_pages[1])) IN
       /\ IsPrefix(gh_reqs, expected)
       /\ gh_halt = "end" => gh_reqs = expected
       /\ gh_halt \in {"invalid", "conn"} => Len(gh_reqs) = Len(gh_pages) + 1
       /\ gh_halt = "running" => Len(gh_reqs) = Len(gh_pages)

\* three pages were announced and all three were requested
C7_Witness ==
  /\ gh_halt = "end"
  /\ AnnouncedPages(gh_pages[1]) = 3
  /\ Len(gh_reqs) = 3

\* C8: get_followers_count() issues one request; with a link header whose last page
\* is N followers grows by N, without one it grows by the number of records in the
\* response, and on ValueError it is unchanged.
C8_FollowersFromOneRequest ==
  gh_fol.out # "none" =>
    /\ Len(gh_fol.reqs) = 1
    /\ gh_fol.out = "ok" =>
         gh_followers = gh_fol.before +
           (IF "link" \in DOMAIN gh_fol.data.headers /\ gh_fol.data.headers["link"] # <<>>
            THEN LastPageByRel(gh_fol.data.headers["link"])
            ELSE Len(gh_fol.data.results))
    /\ gh_fol.out = "ValueError" => gh_followers = gh_fol.before

\* the response held one record and a link header whose last page is 3
C8_Witness ==
  /\ gh_fol.out = "ok"
  /\ Len(gh_fol.data.results) = 1
  /\ "link" \in DOMAIN gh_fol.data.headers
  /\ gh_fol.data.headers["link"] # <<>>
  /\ gh_followers = 3

\* C9: combine(A, B) sums followers, watchers, repos.forked and repos.unforked of
\* its arguments, and repos.count is repos.forked + repos.unforked.
C9_CombineSums ==
  cb_pc = "done" =>
    /\ cb_results.followers = cb_bitbucket.followers + cb_github.followers
    /\ cb_results.watchers = cb_bitbucket.watchers + cb_github.watchers
    /\ cb_results.repos.forked = cb_bitbucket.repos.forked + cb_github.repos.forked
    /\ cb_results.repos.unforked = cb_bitbucket.repos.unforked + cb_github.repos.unforked
    /\ cb_results.repos.count = cb_results.repos.forked + cb_results.repos.unforked

\* both arguments had every counter at 1
C9_Witness ==
  /\ cb_pc = "done"
  /\ cb_bitbucket.repos = [forked |-> 1, unforked |-> 1]
  /\ cb_github.repos = [forked |-> 1, unforked |-> 1]
  /\ cb_results.repos.count = 4
  /\ cb_results.followers = 2
  /\ cb_results.watchers = 2

\* C10: languages.list holds exactly the languages of A and of B, none twice, and
\* languages.count is its length; topics.list holds exactly the topics of B, and
\* topics.count is its length.
C10_LanguagesAndTopics ==
  cb_pc = "done" =>
    LET langs == cb_results.languages.list
        tops == cb_results.topics.list
    IN  /\ Range(langs) = cb_bitbucket.languages \cup cb_github.languages
        /\ \A i, j \in DOMAIN langs : i # j => langs[i] # langs[j]
        /\ cb_results.languages.count = Len(langs)
        /\ Range(tops) = Range(cb_github.topics)
        /\ Len(tops) = Len(cb_github.topics)
        /\ cb_results.topics.count = Len(tops)

\* the two arguments shared a language, and B had two topics
C10_Witness ==
  /\ cb_pc = "done"
  /\ cb_bitbucket.languages = {"python", "java"}
  /\ cb_github.languages = {"python", "javascript"}
  /\ cb_results.languages.count = 3
  /\ cb_results.topics.count = 2

\* C13: in Bitbucket.get_all_results the request for page k+1 goes to exactly the URL
\* page k gave under 'next'; the paginator stops at the first page whose 'next' is
\* absent, null or empty; over a chain of K pages with no failed fetch it ends after
\* exactly K requests, no URL requested twice.
C13_FollowsNextLinks ==
  /\ Len(bb_pages) <= Len(bb_reqs) /\ Len(bb_reqs) <= Len(bb_pages) + 1
  /\ \A k \in 1..Len(bb_pages) :
       k < Len(bb_reqs) =>
         /\ "next" \in DOMAIN bb_pages[k]
         /\ bb_pages[k]["next"] \notin {None, EmptyStr}
         /\ bb_reqs[k + 1] = bb_pages[k]["next"]
  /\ bb_halt = "end" =>
       /\ bb_pages # <<>>
       /\ Len(bb_reqs) = Len(bb_pages)
       /\ LET last == bb_pages[Len(bb_pages)] IN
            "next" \in DOMAIN last => last["next"] \in {None, EmptyStr}
       /\ \A i, j \in DOMAIN bb_reqs : i # j => bb_reqs[i] # bb_reqs[j]
  /\ (bb_halt = "running" /\ bb_pc = "paging") =>
       /\ Len(bb_reqs) = Len(bb_pages)
       /\ bb_pages # <<>> =>
            /\ "next" \in DOMAIN bb_pages[Len(bb_pages)]
            /\ bb_link = bb_pages[Len(bb_pages)]["next"]
            /\ bb_link \notin {None, EmptyStr}

\* a chain of two pages was followed to its end, the second page giving an empty 'next'
C13_Witness ==
  /\ bb_halt = "end"
  /\ Len(bb_pages) = 2
  /\ bb_reqs = <<BBReposUrl, bb_pages[1]["next"]>>
  /\ "next" \in DOMAIN bb_pages[2] /\ bb_pages[2]["next"] = EmptyStr

\* C12 as stated: when a fetch of Bitbucket.get_followers_count() fails with ValueError,
\* on the first page or on a later one, followers keeps the value it had before the
\* call.
C12_FailureLeavesFollowers ==
  [][(bb_ctx = "followers" /\ bb_halt = "running" /\ bb_halt' = "invalid") =>
       bb_followers' = bb_followers]_vars

\* C12, amended: when a fetch of Bitbucket.get_followers_count() fails with ValueError,
\* followers grows by the number of records on the follower pages read before the
\* failure; it keeps its value when the failure is on the first page.
C12_FailureKeepsPagesRead ==
  [][(bb_ctx = "followers" /\ bb_halt = "running" /\ bb_halt' = "invalid") =>
       /\ bb_followers' = bb_followers + SumLen(bb_pages, "values")
       /\ bb_pages = <<>> => bb_followers' = bb_followers]_vars

\* the second follower page failed after the first had given one follower
C12_Witness ==
  /\ bb_ctx = "followers"
  /\ bb_halt = "invalid"
  /\ Len(bb_pages) = 1
  /\ SumLen(bb_pages, "values") = 1
  /\ bb_followers = 1

\* C14: in process_repos() of either collector the follower request is issued only
\* once every listed repository has been processed; when ConnectionResetError comes
\* during the repository listing or the processing of a repository, no follower
\* request is issued afterwards and make_response() returns followers = 0.
C14_FollowersAfterRepositories ==
  /\ (bb_pc = "followers" \/ bb_ctx = "followers") => bb_todo = <<>>
  /\ (bb_conn.set /\ bb_ctx # "followers") =>
       /\ bb_pc \in {"finalize", "done"}
       /\ bb_followers = 0
       /\ bb_pc = "done" => bb_results.followers = 0
  /\ (gh_pc = "followers" \/ gh_fol.out # "none") => gh_todo = <<>>
  /\ (gh_conn.set /\ gh_fol.out = "none") =>
       /\ gh_pc \in {"finalize", "done"}
       /\ gh_followers = 0
       /\ gh_pc = "done" => gh_results.followers = 0

\* make_response() returned after the connection failed while the watchers of the
\* first of two repositories were being counted
C14_Witness ==
  /\ bb_pc = "done"
  /\ bb_conn.set
  /\ bb_ctx = "watchers"
  /\ Len(bb_todo) = 2
  /\ bb_results.followers = 0

\* the fields process_repos reads from a repository record
GHWellFormed(records) ==
  \A i \in DOMAIN records : {"name", "fork", "watchers"} \subseteq DOMAIN records[i]

\* C16: on a fresh collector whose listing returned well-formed repository records,
\* at every point during and after make_response() forked + unforked is the number
\* of repositories whose fork classification has completed; it never exceeds the
\* number of records the listing returned, and equals that number once
\* make_response() is over if no ConnectionResetError occurred.
C16_CountersMatchRepositories ==
  /\ ~bb_listed.set => bb_repos.forked + bb_repos.unforked = 0
  /\ (bb_listed.set /\ bb_listed.wellformed) =>
       /\ bb_repos.forked + bb_repos.unforked = bb_classified
       /\ bb_repos.forked + bb_repos.unforked <= bb_listed.count
       /\ (bb_pc \in {"done", "raised"} /\ ~bb_conn.set) =>
            bb_repos.forked + bb_repos.unforked = bb_listed.count
  /\ gh_halt \notin {"end", "invalid"} => gh_repos.forked + gh_repos.unforked = 0
  /\ (gh_halt \in {"end", "invalid"} /\ GHWellFormed(gh_ret)) =>
       /\ gh_repos.forked + gh_repos.unforked = Len(gh_ret) - Len(gh_todo)
       /\ (gh_pc \in {"done", "raised"} /\ ~gh_conn.set) =>
            gh_repos.forked + gh_repos.unforked = Len(gh_ret)

\* C11: once make_response() of a collector has returned its result, no later
\* operation on that collector changes any field of the returned dict.
C11_ReturnedResultFrozen ==
  [][/\ bb_pc = "done" => bb_results' = bb_results
     /\ gh_pc = "done" => gh_results' = gh_results]_vars

\* What make_response() returns when its collector runs alone against the
\* deterministic server `at`, computed call by call as the methods are written.
AloneAt(at, url, unknown) == IF url \in DOMAIN at THEN at[url] ELSE unknown

RECURSIVE BBAlonePaginate(_, _, _, _)
\* get_all_results(link, data) with `acc` accumulated: the value returned, or that
\* ConnectionResetError left it
BBAlonePaginate(at, link, data, acc) ==
  LET out == AloneAt(at, link, BBFail("ValueError")) IN
  CASE out.kind = "ConnectionResetError" -> [conn |-> TRUE, value |-> acc]
    [] out.kind = "ValueError" -> [conn |-> FALSE, value |-> acc]
    [] OTHER ->
         LET page == IF "values" \in DOMAIN out.body THEN out.body["values"] ELSE <<>>
             acc2 == IF data THEN acc \o page ELSE acc + Len(page)
             next == IF "next" \in DOMAIN out.body THEN out.body["next"] ELSE None
         IN  IF next \notin {None, EmptyStr}
             THEN BBAlonePaginate(at, next, data, acc2)
             ELSE [conn |-> FALSE, value |-> acc2]

RECURSIVE BBAloneRepos(_, _, _)
\* the for loop of process_repos over `todo` and get_followers_count after it
BBAloneRepos(at, todo, acc) ==
  IF todo = <<>>
  THEN LET f == BBAlonePaginate(at, BBFollowersUrl, FALSE, 0) IN
       IF f.conn THEN acc ELSE [acc EXCEPT !.followers = @ + f.value]
  ELSE LET repo == Head(todo)
           a1 == [acc EXCEPT !.languages = @ \cup {repo["language"]}]
           fork == AloneAt(at, repo["links"]["forks"]["href"], BBFail("ValueError"))
           a2 == IF fork.kind = "ok" /\ fork.body["values"] # <<>>
                 THEN [a1 EXCEPT !.repos.forked = @ + 1]
                 ELSE [a1 EXCEPT !.repos.unforked = @ + 1]
           w == BBAlonePaginate(at, BBWatchersUrl(repo["name"]), FALSE, 0)
       IN  IF fork.kind = "ConnectionResetError" THEN a1
           ELSE IF w.conn THEN a2
           ELSE BBAloneRepos(at, Tail(todo), [a2 EXCEPT !.watchers = @ + w.value])

BBAlone(at) ==
  LET zero == [followers |-> 0, languages |-> {},
               repos |-> [forked |-> 0, unforked |-> 0], watchers |-> 0]
      listing == BBAlonePaginate(at, BBReposUrl, TRUE, <<>>)
  IN  IF listing.conn THEN zero ELSE BBAloneRepos(at, listing.value, zero)

RECURSIVE GHAlonePages(_, _, _, _)
\* the for loop of get_all_repos from `page` to `total`, `acc` accumulated
GHAlonePages(at, page, total, acc) ==
  IF page > total THEN [conn |-> FALSE, value |-> acc]
  ELSE LET out == AloneAt(at, GHPageUrl(GHReposUrl, page), GHFail("ValueError")) IN
       CASE out.kind = "ConnectionResetError" -> [conn |-> TRUE, value |-> acc]
         [] out.kind = "ValueError" -> [conn |-> FALSE, value |-> acc]
         [] OTHER -> GHAlonePages(at, page + 1, total, acc \o out.data.results)

GHAloneListing(at) ==
  LET out == AloneAt(at, GHReposUrl, GHFail("ValueError")) IN
  CASE out.kind = "ConnectionResetError" -> [conn |-> TRUE, value |-> <<>>]
    [] out.kind = "ValueError" -> [conn |-> FALSE, value |-> <<>>]
    [] OTHER -> GHAlonePages(at, 2, AnnouncedPages(out.data), out.data.results)

RECURSIVE GHAloneRepos(_, _, _)
\* the for loop of process_repos over `todo` and get_followers_count after it
GHAloneRepos(at, todo, acc) ==
  IF todo = <<>>
  THEN LET out == AloneAt(at, GHFollowersUrl, GHFail("ValueError")) IN
       IF out.kind = "ok"
       THEN [acc EXCEPT !.followers = @ + (IF "link" \in DOMAIN out.data.headers
                                              /\ out.data.headers["link"] # <<>>
                                           THEN LastPageByRel(out.data.headers["link"])
                                           ELSE Len(out.data.results))]
       ELSE acc
  ELSE LET repo == Head(todo)
           out == AloneAt(at, GHLanguagesUrl(repo["name"]), GHFail("ValueError"))
           a1 == IF out.kind = "ok"
                 THEN [acc EXCEPT !.languages =
                         @ \cup {IF k = "Python" THEN "python" ELSE k :
                                   k \in DOMAIN out.data.results}]
                 ELSE acc
           a2 == IF repo["fork"] THEN [a1 EXCEPT !.repos.forked = @ + 1]
                 ELSE [a1 EXCEPT !.repos.unforked = @ + 1]
           a3 == IF "topics" \in DOMAIN repo
                 THEN [a2 EXCEPT !.topics = @ \cup Range(repo["topics"])] ELSE a2
       IN  IF out.kind = "ConnectionResetError" THEN acc
           ELSE GHAloneRepos(at, Tail(todo), [a3 EXCEPT !.watchers = @ + repo["watchers"]])

GHAlone(at) ==
  LET zero == [followers |-> 0, languages |-> {},
               repos |-> [forked |-> 0, unforked |-> 0], topics |-> {}, watchers |-> 0]
      listing == GHAloneListing(at)
  IN  IF listing.conn THEN zero ELSE GHAloneRepos(at, listing.value, zero)

\* C15: the two collectors share no mutable state: however the steps of the two
\* make_response() runs are interleaved against one deterministic server, the result
\* each collector returns is the one it returns when it runs alone against that
\* server (the topics as a set, their order in the list not being fixed).
C15_ResultsAsWhenRunAlone ==
  /\ bb_pc = "done" => bb_results = BBAlone(transport.at)
  /\ gh_pc = "done" =>
       [followers |-> gh_results.followers, languages |-> gh_results.languages,
        repos |-> gh_results.repos, topics |-> Range(gh_results.topics),
        watchers |-> gh_results.watchers] = GHAlone(transport.at)

\* Bitbucket has returned a result with both of its repositories counted while
\* Github, one of its two repositories processed, is in the middle of its loop
C15_Witness ==
  /\ collector = "both"
  /\ bb_pc = "done"
  /\ bb_results.repos = [forked |-> 1, unforked |-> 1]
  /\ bb_results.followers = 2
  /\ gh_pc = "repo"
  /\ Len(gh_todo) = 1
  /\ gh_repos.forked = 1

====
